---- MODULE Spec2Model ----
(***************************************************************************)
(* A model of examples/06-qa-repeater/qarepeater.py: the QARepeater client *)
(* (construction, lazy reference resolution, repeat_qa), the paginated and *)
(* throttled get_api_objects helper, and the value decoding by test type.  *)
(* The RadMachine service is the environment: its answers are drawn from   *)
(* small sets.  Time is counted in ticks of 0.1 s.                         *)
(***************************************************************************)
EXTENDS Integers, Sequences, FiniteSets, TLC

\* ------------------------------------------------------------------------
\* Bounds of the model
\* ------------------------------------------------------------------------
MaxN == 2
MaxSessions == 2
MaxCalls == 2
MaxUrlLen == 4
MaxTime == 9
MaxRequests == 3
MaxClock == 400

\* ------------------------------------------------------------------------
\* Program constants
\* ------------------------------------------------------------------------
\* API_SLEEP_TIME_S = 0.4, in ticks of 0.1 s
API_SLEEP_TIME_S == 4
\* time.sleep(1) between two page fetches, in ticks of 0.1 s
PAGE_SLEEP_S == 10
\* requests.status_codes.codes.CREATED
CREATED == 201
\* page size of the service's list endpoints when the request names no limit
PageSize == 2

CALCULATED_TEST_TYPES == {"composite", "scomposite", "rlookup"}

\* ------------------------------------------------------------------------
\* Python values: None, numbers, strings, lists (opaque), text decoded from
\* bytes.  Two values are equal (Python ==) iff their records are equal.
\* ------------------------------------------------------------------------
NoneV == [t |-> "none"]
Num(i) == [t |-> "num", n |-> i]
Str(x) == [t |-> "str", s |-> x]
ListV(x) == [t |-> "list", items |-> x]
Text(bs) == [t |-> "text", b |-> bs]

\* Python truthiness, as `if attachment_id:` evaluates it
Truthy(v) ==
  ~ (\/ v = NoneV
     \/ v = Num(0)
     \/ v = Str("")
     \/ v = ListV(<<>>)
     \/ v = Text(<<>>))

\* ------------------------------------------------------------------------
\* Strings that the code takes apart are sequences of tokens; "/" is the
\* slash and every other token is a run of characters without a slash.
\* ------------------------------------------------------------------------
RECURSIVE LStrip(_)
LStrip(u) == IF u # <<>> /\ Head(u) = "/" THEN LStrip(Tail(u)) ELSE u

RECURSIVE RStrip(_)
RStrip(u) ==
  IF u # <<>> /\ u[Len(u)] = "/" THEN RStrip(SubSeq(u, 1, Len(u) - 1)) ELSE u

\* str.strip('/')
Strip(u) == RStrip(LStrip(u))

EndsWith(u, suffix) ==
  /\ Len(u) >= Len(suffix)
  /\ SubSeq(u, Len(u) - Len(suffix) + 1, Len(u)) = suffix

\* object_id_from_url: url.strip("/").rsplit("/")[-1]
ObjectIdFromUrl(url) ==
  LET s == Strip(url) IN IF s = <<>> THEN "" ELSE s[Len(s)]

\* ------------------------------------------------------------------------
\* base64.b64decode(bytes) followed by bytes.decode(): bytes are their
\* integer codes.
\* ------------------------------------------------------------------------
\* the base64 alphabet: the 6-bit value of a byte, 64 for a byte outside it
B64Index(c) ==
  IF c >= 65 /\ c <= 90 THEN c - 65
  ELSE IF c >= 97 /\ c <= 122 THEN c - 71
  ELSE IF c >= 48 /\ c <= 57 THEN c + 4
  ELSE IF c = 43 THEN 62
  ELSE IF c = 47 THEN 63
  ELSE 64

\* binascii.a2b_base64 (not strict): bytes outside the alphabet are dropped,
\* padding ends the data once a quantum is complete, and data that stops
\* inside a quantum is an error.
RECURSIVE A2bBase64(_, _, _, _, _, _)
A2bBase64(s, i, quad_pos, leftchar, pads, out) ==
  IF i > Len(s)
  THEN IF quad_pos # 0 THEN [ok |-> FALSE, b |-> <<>>] ELSE [ok |-> TRUE, b |-> out]
  ELSE IF s[i] = 61
  THEN IF quad_pos >= 2 /\ quad_pos + pads + 1 >= 4
       THEN [ok |-> TRUE, b |-> out]
       ELSE A2bBase64(s, i + 1, quad_pos, leftchar, pads + 1, out)
  ELSE LET c == B64Index(s[i]) IN
       IF c >= 64 THEN A2bBase64(s, i + 1, quad_pos, leftchar, pads, out)
       ELSE IF quad_pos = 0 THEN A2bBase64(s, i + 1, 1, c, 0, out)
       ELSE IF quad_pos = 1
            THEN A2bBase64(s, i + 1, 2, c % 16, 0, Append(out, leftchar * 4 + c \div 16))
       ELSE IF quad_pos = 2
            THEN A2bBase64(s, i + 1, 3, c % 4, 0, Append(out, leftchar * 16 + c \div 4))
       ELSE A2bBase64(s, i + 1, 0, 0, 0, Append(out, leftchar * 64 + c))

B64Decode(s) == A2bBase64(s, 1, 0, 0, 0, <<>>)

\* bytes.decode(): UTF-8; the model's byte strings hold ASCII bytes and the
\* byte 255, which no UTF-8 text contains
Utf8Ok(bs) == \A k \in 1..Len(bs) : bs[k] < 128

\* ------------------------------------------------------------------------
\* json.loads / json.dumps on the JSON texts of the model
\* ------------------------------------------------------------------------
JsonError == [t |-> "jsonerror"]

JsonLoads(v) ==
  IF v = Str("5") THEN Num(5)
  ELSE IF v = Str("0") THEN Num(0)
  ELSE IF v = Str("[1, 2]") THEN ListV(<<1, 2>>)
  ELSE IF v = Str("null") THEN NoneV
  ELSE JsonError

JsonDumps(v) ==
  IF v = Num(5) THEN Str("5")
  ELSE IF v = Num(0) THEN Str("0")
  ELSE IF v = ListV(<<1, 2>>) THEN Str("[1, 2]")
  ELSE IF v = NoneV THEN Str("null")
  ELSE Str("?")

\* ------------------------------------------------------------------------
\* get_testinstance_value
\* ------------------------------------------------------------------------
\* a mutant: every type is read from the value field
GetValueField(test, test_instance) ==
  IF test_instance.skipped THEN NoneV ELSE test_instance.value

get_testinstance_value(test, test_instance) ==
  IF test_instance.skipped THEN NoneV
  ELSE IF test.type = "simple" /\ test.statistic
  THEN JsonLoads(test_instance.json_value)
  ELSE IF test.type \in {"boolean", "composite", "constant", "simple", "wraparound"}
  THEN test_instance.value
  ELSE IF test.type \in {"string", "scomposite", "multchoice", "upload"}
  THEN test_instance.string_value
  ELSE IF test.type = "date" THEN test_instance.date_value
  ELSE IF test.type = "datetime" THEN test_instance.datetime_value
  ELSE IF test.type = "ulookup" THEN Str(ObjectIdFromUrl(test_instance.unit_lookup_value))
  ELSE IF test.type = "rlookup" THEN Str(ObjectIdFromUrl(test_instance.unit_lookup_value))
  ELSE test_instance.json_value

\* ------------------------------------------------------------------------
\* The service: its resources and its answers.  A URL the client requests
\* is a record: the endpoint, the id in the path, and the limit and offset
\* of the query (limit -1: the request names none).
\* ------------------------------------------------------------------------
IdStr(k) == [t |-> "idstr", k |-> k]
SessionUrl(k) == [t |-> "url", k |-> k]

NoUrl == [ep |-> "none"]
Url(ep, id, limit, offset) == [ep |-> ep, id |-> id, limit |-> limit, offset |-> offset]

AssignmentId == 123
TestListRef == <<"qa", "/", "testlists", "/", "7", "/">>
UnitRef == <<"units", "/", "units", "/", "5", "/">>
LookupRef(id) == <<"units", "/", "lookup", "/", id, "/">>

Test(slug, name, type, statistic, url) ==
  [slug |-> slug, name |-> name, type |-> type, statistic |-> statistic, url |-> url]

TempTest(type, statistic) == Test("temperature", "Temperature", type, statistic, "test/1")
KtpTest(type) == Test("ktp", "T&P correction", type, FALSE, "test/2")
ImageTest == Test("image", "Image", "upload", FALSE, "test/3")
OldTest == Test("old", "Removed test", "simple", FALSE, "test/4")

\* every unit test info of the unit: those of the tests above, whether or
\* not the test is still in the test list, and one of another test list
UnitUtis ==
  << [url |-> "uti/1", test |-> "test/1"],
     [url |-> "uti/2", test |-> "test/2"],
     [url |-> "uti/3", test |-> "test/3"],
     [url |-> "uti/4", test |-> "test/4"],
     [url |-> "uti/9", test |-> "test/9"] >>

UtiOf(test) == (CHOOSE u \in {UnitUtis[k] : k \in 1..Len(UnitUtis)} : u.test = test.url).url

\* the attachments that exist before any replay: valid base64 text ("aGk="),
\* plain text that is no base64 ("hi"), base64 of a byte that is no UTF-8
\* ("/w==")
InitialAttachments ==
  << [id |-> IdStr(1), label |-> "a.txt", content |-> <<97, 71, 107, 61>>],
     [id |-> IdStr(2), label |-> "b.txt", content |-> <<104, 105>>],
     [id |-> IdStr(3), label |-> "c.bin", content |-> <<47, 119, 61, 61>>] >>

\* a test instance as the service stores it: the value sits in the field
\* of the test's type
BlankInstance(uti) ==
  [unit_test_info |-> uti, skipped |-> FALSE, value |-> NoneV, string_value |-> NoneV,
   date_value |-> NoneV, datetime_value |-> NoneV, json_value |-> NoneV,
   unit_lookup_value |-> <<>>]

SkippedInstance(uti) == [BlankInstance(uti) EXCEPT !.skipped = TRUE]

StoredInstance(test, v) ==
  LET blank == BlankInstance(UtiOf(test)) IN
  IF test.type = "simple" /\ test.statistic
  THEN [blank EXCEPT !.json_value = JsonDumps(v)]
  ELSE IF test.type \in {"boolean", "composite", "constant", "simple", "wraparound"}
  THEN [blank EXCEPT !.value = v]
  ELSE IF test.type \in {"string", "scomposite", "multchoice", "upload"}
  THEN [blank EXCEPT !.string_value = v]
  ELSE IF test.type = "date" THEN [blank EXCEPT !.date_value = v]
  ELSE IF test.type = "datetime" THEN [blank EXCEPT !.datetime_value = v]
  ELSE IF test.type \in {"ulookup", "rlookup"}
  THEN [blank EXCEPT !.unit_lookup_value = LookupRef(v.s)]
  ELSE [blank EXCEPT !.json_value = v]

\* the values a performed test of each type can hold
ValuesOfType(type, statistic) ==
  IF type = "simple" /\ statistic THEN {Num(5), ListV(<<1, 2>>)}
  ELSE IF type \in {"boolean", "composite", "constant", "simple", "wraparound"}
  THEN {Num(0), Num(5)}
  ELSE IF type \in {"string", "scomposite", "multchoice"} THEN {Str(""), Str("a")}
  ELSE IF type = "upload" THEN {NoneV, Str(""), IdStr(1), IdStr(2), IdStr(3)}
  ELSE IF type \in {"date", "datetime"} THEN {Str("2023-04-12")}
  ELSE IF type \in {"ulookup", "rlookup"} THEN {Str("7")}
  ELSE {Str("5"), Str("x")}

Min(a, b) == IF a < b THEN a ELSE b

RECURSIVE Reverse(_)
Reverse(s) == IF s = <<>> THEN <<>> ELSE Append(Reverse(Tail(s)), Head(s))

\* response.json() of a single object and of a page of a list endpoint
Object(keys, obj) ==
  [isdict |-> TRUE, keys |-> keys, results |-> <<>>, next |-> NoUrl, obj |-> obj]

NotFound == Object({"detail"}, [kind |-> "notfound"])

Page(items, limit, u) ==
  [isdict |-> TRUE, keys |-> {"count", "next", "previous", "results"},
   results |-> SubSeq(items, u.offset + 1, Min(u.offset + limit, Len(items))),
   next |-> IF u.offset + limit < Len(items)
              THEN [u EXCEPT !.offset = u.offset + limit] ELSE NoUrl,
   obj |-> [kind |-> "page"]]

\* the answers the root of a service can give to the probe
RootPayloads ==
  { Object({"qa", "units", "attachments"}, [kind |-> "root"]),
    Object({"detail"}, [kind |-> "root"]),
    [Object({"qa", "results"}, [kind |-> "root"]) EXCEPT !.results = <<"x">>],
    [Object({}, [kind |-> "root"]) EXCEPT !.isdict = FALSE] }

GoodRoot == Object({"qa", "units", "attachments"}, [kind |-> "root"])

VARIABLES
  tests,         \* service: the tests of the assignment's test list, in order
  sessions,      \* service: the assignment's QA sessions, oldest first
  attachments,   \* service: the attachments
  rootPayload,   \* service: what the root answers
  api_url,       \* the api_url given to QARepeater(...)
  root,          \* self.root
  pc,            \* where the client is
  cache,         \* the cached properties: assignment, test_list, unit_test_infos
  fetches,       \* how often each cached property was fetched
  loc,           \* the locals of the running repeat_qa call
  outcome,       \* how the last constructor or repeat_qa call ended
  plan,          \* the num_sessions of the repeat_qa calls the caller will make
  g,             \* the running get_api_objects call
  clock,         \* time.monotonic()
  nextAllowed,   \* _next_allowed_api_call_time
  lastDispatch,  \* when the last throttled request was sent (-1: none yet)
  gap,           \* time between the last two throttled requests (-1: none yet)
  nreq,          \* get_api_objects calls made by the throttle's caller
  log            \* the requests sent during the running call, in order

vars ==
  << tests, sessions, attachments, rootPayload, api_url, root, pc, cache, fetches,
     loc, outcome, plan, g, clock, nextAllowed, lastDispatch, gap, nreq, log >>

serverVars == << tests, sessions, attachments, rootPayload >>
timeVars == << clock, nextAllowed, lastDispatch, gap >>

\* a listing of two pages whose next links lead to each other
CyclicPage(u) ==
  [isdict |-> TRUE, keys |-> {"count", "next", "previous", "results"},
   results |-> << "x" >>,
   next |-> [u EXCEPT !.offset = 1 - u.offset],
   obj |-> [kind |-> "page"]]

\* GET of a URL: response.json()
ServerGet(u) ==
  IF u.ep = "root" THEN rootPayload
  ELSE IF u.ep = "unittestcollections"
  THEN IF u.id = Num(AssignmentId)
       THEN Object({"url", "tests_object", "unit"},
                   [kind |-> "assignment", url |-> "assignment/123",
                    tests_object |-> TestListRef, unit |-> UnitRef])
       ELSE NotFound
  ELSE IF u.ep = "testlists-details"
  THEN IF u.id = Str(ObjectIdFromUrl(TestListRef))
       THEN Object({"url", "tests"}, [kind |-> "testlist", tests |-> tests])
       ELSE NotFound
  ELSE IF u.ep = "unittestinfos"
  THEN Page(IF u.id = Str(ObjectIdFromUrl(UnitRef)) THEN UnitUtis ELSE <<>>,
            IF u.limit < 0 THEN PageSize ELSE u.limit, u)
  ELSE IF u.ep = "testlistinstances"
  THEN Page(IF u.id = Num(AssignmentId) THEN Reverse(sessions) ELSE <<>>,
            IF u.limit < 0 THEN PageSize ELSE u.limit, u)
  ELSE IF u.ep = "cycle"
  THEN CyclicPage(u)
  ELSE IF u.ep = "attachments"
  THEN IF \E k \in 1..Len(attachments) : attachments[k].id = u.id
       THEN LET a == attachments[CHOOSE k \in 1..Len(attachments) : attachments[k].id = u.id]
            IN Object({"download", "label"},
                      [kind |-> "attachment", download |-> a.id, label |-> a.label])
       ELSE NotFound
  ELSE NotFound

\* ------------------------------------------------------------------------
\* Initial values shared by the specifications
\* ------------------------------------------------------------------------
Session(k, instances) ==
  [url |-> SessionUrl(k), work_completed |-> k, test_instances |-> instances]

BaselineTests == << TempTest("simple", FALSE), KtpTest("composite") >>

\* the k-th historical session of the baseline: temperature k, ktp 5
BaselineSession(k) ==
  Session(k, << StoredInstance(TempTest("simple", FALSE), Num(k)),
                StoredInstance(KtpTest("composite"), Num(5)) >>)

GoodUrl == <<"h", "/", "api", "/">>

Unset == [set |-> FALSE]
Cached(v) == [set |-> TRUE, v |-> v]

\* a mutant: a plain property, computed at every use
AlwaysFetch(entry) == TRUE

\* @cached_property: the function runs only while the instance holds no value
NeedsFetch(entry) == ~ entry.set

\* the locals of repeat_qa; existing is not one of them: it records how
\* many sessions the assignment had when the call began
NoLocals ==
  [n |-> 0, prevs |-> <<>>, i |-> 0, previous_results |-> <<>>, j |-> 0,
   tvfp |-> <<>>, attachment |-> [kind |-> "none"], new_url |-> NoneV,
   results |-> <<>>, existing |-> 0]

GIdle ==
  [pc |-> "idle", all_pages |-> FALSE, next_page |-> NoUrl, results |-> <<>>,
   now |-> 0, ret |-> [kind |-> "none"]]

ClientInit ==
  /\ root = <<>>
  /\ cache = [assignment |-> Unset, test_list |-> Unset, unit_test_infos |-> Unset]
  /\ fetches = [assignment |-> 0, test_list |-> 0, unit_test_infos |-> 0, unit |-> 0]
  /\ loc = NoLocals
  /\ outcome = [kind |-> "none"]
  /\ g = GIdle
  /\ clock = 0
  /\ nextAllowed = 0
  /\ lastDispatch = -1
  /\ gap = -1
  /\ nreq = 0
  /\ log = <<>>

\* ------------------------------------------------------------------------
\* get_api_objects(session, url, all_pages)
\* ------------------------------------------------------------------------
\* the call begins: next_page = url, results = []
StartGet(u, all_pages) ==
  [pc |-> "wait", all_pages |-> all_pages, next_page |-> u, results |-> <<>>,
   now |-> 0, ret |-> [kind |-> "none"]]

\* a request as the log keeps it; status and json (the body parses as JSON)
\* are those of the response, where the log records it
Request(method, u, throttled) ==
  [method |-> method, url |-> u, throttled |-> throttled, status |-> 0, json |-> FALSE]

\* _next_allowed_api_call_time = now + API_SLEEP_TIME_S, `now` being the
\* time read before the sleep
NextDeadline(now) == now + API_SLEEP_TIME_S

\* now = time.monotonic(); if now < deadline: time.sleep(deadline - now)
GetWait ==
  /\ g.pc = "wait"
  /\ g' = [g EXCEPT !.pc = "send", !.now = clock]
  /\ clock' = IF clock < nextAllowed THEN nextAllowed ELSE clock
  /\ UNCHANGED << serverVars, api_url, root, pc, cache, fetches, loc, outcome,
                  plan, nextAllowed, lastDispatch, gap, nreq, log >>

\* the deadline is advanced and session.get(next_page) is sent
GetSend ==
  /\ g.pc = "send"
  /\ nextAllowed' = NextDeadline(g.now)
  /\ gap' = IF lastDispatch < 0 THEN -1 ELSE clock - lastDispatch
  /\ lastDispatch' = clock
  /\ log' = Append(log, Request("GET", g.next_page, TRUE))
  /\ g' = [g EXCEPT !.pc = "recv"]
  /\ UNCHANGED << serverVars, api_url, root, pc, cache, fetches, loc, outcome,
                  plan, clock, nreq >>

\* a mutant: the loop is left after the first page, whatever follows
StopPagingAlways(all_pages, next_page) == TRUE

\* a mutant: the next link is followed whatever all_pages says
StopPagingIgnoringFlag(all_pages, next_page) == next_page = NoUrl

\* `if not (all_pages and next_page): break`
StopPaging(all_pages, next_page) == ~ (all_pages /\ next_page # NoUrl)

\* the response arrives (or the request raises); a single object is
\* returned, a page is accumulated and the next one fetched after a second
GetRecv ==
  /\ g.pc = "recv"
  /\ \E failed \in BOOLEAN :
       IF failed
       THEN /\ g' = [g EXCEPT !.pc = "raised"]
            /\ clock' = clock
       ELSE LET payload == ServerGet(g.next_page)
                is_single_object == ~ payload.isdict \/ "results" \notin payload.keys
                results == g.results \o payload.results
            IN IF is_single_object
               THEN /\ g' = [g EXCEPT !.pc = "ret",
                                      !.ret = [kind |-> "single", payload |-> payload]]
                    /\ clock' = clock
               ELSE IF StopPaging(g.all_pages, payload.next)
               THEN /\ g' = [g EXCEPT !.pc = "ret", !.results = results,
                                      !.next_page = payload.next,
                                      !.ret = [kind |-> "list", list |-> results]]
                    /\ clock' = clock
               ELSE /\ clock + PAGE_SLEEP_S <= MaxClock
                    /\ g' = [g EXCEPT !.pc = "wait", !.results = results,
                                      !.next_page = payload.next]
                    /\ clock' = clock + PAGE_SLEEP_S
  /\ UNCHANGED << serverVars, api_url, root, pc, cache, fetches, loc, outcome,
                  plan, nextAllowed, lastDispatch, gap, nreq, log >>

GDone == g.pc \in {"ret", "raised"}

\* ------------------------------------------------------------------------
\* Python dicts keep insertion order: a dict is a sequence of [key, value]
\* ------------------------------------------------------------------------
HasKey(d, key) == \E k \in 1..Len(d) : d[k].key = key

DictGet(d, key) == d[CHOOSE k \in 1..Len(d) : d[k].key = key].value

DictSet(d, key, value) ==
  IF HasKey(d, key)
  THEN [k \in 1..Len(d) |-> IF d[k].key = key THEN [key |-> key, value |-> value] ELSE d[k]]
  ELSE Append(d, [key |-> key, value |-> value])

Exc(type, msg) == [type |-> type, msg |-> msg]

\* ------------------------------------------------------------------------
\* QARepeater: the pure parts
\* ------------------------------------------------------------------------
\* __init__: self.root = api_url.strip('/') + '/'
NormalizedRoot(url) == Append(Strip(url), "/")

\* __init__: self.root.endswith('/api/')
RootShapeOk(r) == EndsWith(r, <<"/", "api", "/">>)

\* __init__: isinstance(resp, dict) and 'qa' in resp
ProbeOk(ret) == ret.kind = "single" /\ ret.payload.isdict /\ "qa" \in ret.payload.keys

\* a mutant: a bad probe answer is reported like a bad URL
ProbeErrorAsUrlError == Exc("ValueError", "Invalid API URL")

\* __init__: the error raised when the probe fails or its answer is not a
\* service root
ProbeError == Exc("ValueError", "Unable to contact RadMachine")

\* __init__: the error raised for a root that does not end with /api/
UrlShapeError == Exc("ValueError", "Invalid API URL")

\* {t["slug"]: t for t in self.tests}[slug]: the last test of that slug
SlugToTest(ts, slug) ==
  ts[CHOOSE k \in 1..Len(ts) :
       ts[k].slug = slug /\ \A m \in (k + 1)..Len(ts) : ts[m].slug # slug]

TestUrls(ts) == {ts[k].url : k \in 1..Len(ts)}

\* unit_test_infos: [uti for uti in all_unit_utis if uti['test'] in test_urls]
TestListUtis(all_unit_utis, ts) ==
  SelectSeq(all_unit_utis, LAMBDA uti : uti.test \in TestUrls(ts))

\* results_from_session: {slug: value} of the session's test instances; a
\* test instance whose unit test info or test is not known raises KeyError
RECURSIVE DecodeInstances(_, _, _, _)
DecodeInstances(instances, ts, utis, results) ==
  IF instances = <<>> THEN [ok |-> TRUE, results |-> results]
  ELSE LET ti == Head(instances) IN
       IF ~ \E k \in 1..Len(utis) : utis[k].url = ti.unit_test_info
       THEN [ok |-> FALSE, exc |-> Exc("KeyError", "unit_test_info")]
       ELSE LET test_url == utis[CHOOSE k \in 1..Len(utis) :
                                   utis[k].url = ti.unit_test_info].test
            IN IF test_url \notin TestUrls(ts)
               THEN [ok |-> FALSE, exc |-> Exc("KeyError", "test")]
               ELSE LET test == ts[CHOOSE k \in 1..Len(ts) : ts[k].url = test_url]
                        value == get_testinstance_value(test, ti)
                    IN IF value = JsonError
                       THEN [ok |-> FALSE, exc |-> Exc("JSONDecodeError", "json_value")]
                       ELSE DecodeInstances(Tail(instances), ts, utis,
                                            DictSet(results, test.slug, value))

ResultsFromSession(qa_session, ts, utis) ==
  DecodeInstances(qa_session.test_instances, ts, utis, <<>>)

SkippedEntry == [skipped |-> TRUE]
ValueEntry(value) == [value |-> value]
UploadEntry(value, filename) ==
  [value |-> value, filename |-> filename, encoding |-> "base64"]

\* a mutant: every test of the list gets an entry, calculated or not
PayloadOfAllTests(ts) == [slug \in {ts[k].slug : k \in 1..Len(ts)} |-> SkippedEntry]

\* repeat_qa: {t["slug"]: {"skipped": True} for t in self.tests
\*             if t["type"] not in CALCULATED_TEST_TYPES}
InitialPayload(ts) ==
  [slug \in {ts[k].slug : k \in {m \in 1..Len(ts) : ts[m].type \notin CALCULATED_TEST_TYPES}}
     |-> SkippedEntry]

\* a mutant: a value of None is submitted like any other
NotSubmittedIgnoresNone(test, value) == test.type \in CALCULATED_TEST_TYPES

\* a mutant: a value of 0 or "" is taken for no value
NoValueIfFalsy(test, value) ==
  test.type \in CALCULATED_TEST_TYPES \/ ~ Truthy(value)

\* repeat_qa: `if test["type"] in CALCULATED_TEST_TYPES or value is None: continue`
NotSubmitted(test, value) ==
  test.type \in CALCULATED_TEST_TYPES \/ value = NoneV

\* repeat_qa: base64.b64decode(attachment.read()).decode()
UploadValue(content) ==
  LET d == B64Decode(content) IN
  IF ~ d.ok THEN [ok |-> FALSE, exc |-> Exc("binascii.Error", "Incorrect padding")]
  ELSE IF ~ Utf8Ok(d.b) THEN [ok |-> FALSE, exc |-> Exc("UnicodeDecodeError", "utf-8")]
  ELSE [ok |-> TRUE, value |-> Text(d.b)]

\* a mutant of generate_results_table: a slug the new session has no result
\* for gets None as its new value
RowsDefaultNone(previous_results, new_results, ts) ==
  [k \in 1..Len(previous_results) |->
     LET slug == previous_results[k].key
         prev_val == previous_results[k].value
         new_val == IF HasKey(new_results, slug) THEN DictGet(new_results, slug) ELSE NoneV
     IN << Str(SlugToTest(ts, slug).name), prev_val, new_val,
           Str(IF prev_val = new_val THEN "True" ELSE "False") >>]

\* generate_results_table: one row per slug of previous_results
Rows(previous_results, new_results, ts) ==
  [k \in 1..Len(previous_results) |->
     LET slug == previous_results[k].key
         prev_val == previous_results[k].value
         new_val == IF HasKey(new_results, slug) THEN DictGet(new_results, slug) ELSE Str("")
     IN << Str(SlugToTest(ts, slug).name), prev_val, new_val,
           Str(IF prev_val = new_val THEN "True" ELSE "False") >>]

HeaderRows(previous_session, new_session) ==
  << << Str("Previous Session Link"), previous_session.url >>,
     << Str("Previous Session Date"), Num(previous_session.work_completed) >>,
     << Str("New Session Link"), new_session.url >>,
     << Str("New Session Date"), Num(new_session.work_completed) >>,
     << Str("Test"), Str("Previous Result"), Str("New Result"), Str("Equal") >> >>

generate_results_table(previous_session, previous_results, new_session, new_results, ts) ==
  HeaderRows(previous_session, new_session) \o Rows(previous_results, new_results, ts)

\* a mutant of previous_sessions: every page is fetched
PreviousSessionsAllPages(num_previous_instances) ==
  [url |-> Url("testlistinstances", Num(AssignmentId), num_previous_instances, 0),
   all_pages |-> TRUE]

\* previous_sessions: the URL (ordering=-work_completed, the assignment,
\* limit=num_previous_instances) and all_pages=False
PreviousSessionsCall(num_previous_instances) ==
  [url |-> Url("testlistinstances", Num(AssignmentId), num_previous_instances, 0),
   all_pages |-> FALSE]

\* ------------------------------------------------------------------------
\* The service's side of a session POST that it accepts
\* ------------------------------------------------------------------------
\* what the service calculates for a calculated test: one of two results
CalcResult(type, c) ==
  IF type = "composite" THEN << Num(5), Num(6) >>[c]
  ELSE IF type = "scomposite" THEN << Str("a"), Str("b") >>[c]
  ELSE << Str("7"), Str("8") >>[c]

\* the instances of the new session: calculated tests as the service
\* calculates them, the others as the payload gives them; an upload is
\* stored as a new attachment and the instance holds its id
NewInstances(ts, payload, c, new_attachment_id) ==
  [k \in 1..Len(ts) |->
     LET test == ts[k] IN
     IF test.type \in CALCULATED_TEST_TYPES
     THEN StoredInstance(test, CalcResult(test.type, c))
     ELSE IF test.slug \notin DOMAIN payload THEN SkippedInstance(UtiOf(test))
     ELSE LET e == payload[test.slug] IN
          IF "skipped" \in DOMAIN e THEN SkippedInstance(UtiOf(test))
          ELSE IF "encoding" \in DOMAIN e THEN StoredInstance(test, new_attachment_id)
          ELSE StoredInstance(test, e.value)]

NewAttachments(payload, new_attachment_id) ==
  LET uploads == {slug \in DOMAIN payload : "encoding" \in DOMAIN payload[slug]} IN
  IF uploads = {} THEN <<>>
  ELSE LET e == payload[CHOOSE slug \in uploads : TRUE]
       IN << [id |-> new_attachment_id, label |-> e.filename, content |-> e.value.b] >>

\* the service may answer a created session without the instances of the
\* tests submitted as skipped
Performed(instances) == SelectSeq(instances, LAMBDA ti : ~ ti.skipped)

\* GET of a session's own URL and of an attachment's download link
ServerSession(url) == sessions[CHOOSE k \in 1..Len(sessions) : sessions[k].url = url]

ServerDownload(id) ==
  attachments[CHOOSE k \in 1..Len(attachments) : attachments[k].id = id].content

\* ------------------------------------------------------------------------
\* The throttle on its own: a caller makes get_api_objects calls one after
\* the other, at any time, and time passes between any two steps.
\* ------------------------------------------------------------------------
ThrottleUrls ==
  { Url("root", NoneV, -1, 0),
    Url("unittestinfos", Str("5"), -1, 0),
    Url("testlistinstances", Num(AssignmentId), 1, 0) }

ThrottledCall ==
  /\ pc = "throttle"
  /\ g.pc \in {"idle", "ret", "raised"}
  /\ nreq < MaxRequests
  /\ \E u \in ThrottleUrls, all_pages \in BOOLEAN : g' = StartGet(u, all_pages)
  /\ nreq' = nreq + 1
  /\ log' = <<>>
  /\ UNCHANGED << serverVars, api_url, root, pc, cache, fetches, loc, outcome,
                  plan, timeVars >>

Tick ==
  /\ pc = "throttle"
  /\ clock < MaxTime
  /\ clock' = clock + 1
  /\ UNCHANGED << serverVars, api_url, root, pc, cache, fetches, loc, outcome,
                  plan, g, nextAllowed, lastDispatch, gap, nreq, log >>

InitThrottle ==
  /\ tests = BaselineTests
  /\ sessions = << BaselineSession(1), BaselineSession(2) >>
  /\ attachments = InitialAttachments
  /\ rootPayload = GoodRoot
  /\ api_url = GoodUrl
  /\ pc = "throttle"
  /\ plan = <<>>
  /\ ClientInit

NextThrottle == ThrottledCall \/ GetWait \/ GetSend \/ GetRecv \/ Tick

SpecThrottle == InitThrottle /\ [][NextThrottle]_vars

\* C1: two consecutive throttled GET requests are never sent less than
\* API_SLEEP_TIME_S apart.
C1_MinimumInterval == gap >= 0 => gap >= API_SLEEP_TIME_S

\* ------------------------------------------------------------------------
\* QARepeater.__init__
\* ------------------------------------------------------------------------
Raised(exc) == [kind |-> "raised", exc |-> exc]

\* the URL is normalised and its shape checked; a good shape starts the
\* probe, get_api_objects('')
Construct ==
  /\ pc = "new"
  /\ root' = NormalizedRoot(api_url)
  /\ log' = <<>>
  /\ IF RootShapeOk(root')
     THEN /\ pc' = "probe"
          /\ g' = StartGet(Url("root", NoneV, -1, 0), TRUE)
          /\ outcome' = [kind |-> "running"]
     ELSE /\ pc' = "failed"
          /\ g' = g
          /\ outcome' = Raised(UrlShapeError)
  /\ UNCHANGED << serverVars, api_url, cache, fetches, loc, plan, timeVars, nreq >>

\* the probe's get_api_objects call is over: any exception, and an answer
\* that is no mapping with the key 'qa', end in the same ValueError
ProbeReturn ==
  /\ pc = "probe"
  /\ GDone
  /\ IF g.pc = "ret" /\ ProbeOk(g.ret)
     THEN /\ pc' = "ready"
          /\ outcome' = [kind |-> "constructed"]
     ELSE /\ pc' = "failed"
          /\ outcome' = Raised(ProbeError)
  /\ UNCHANGED << serverVars, api_url, root, cache, fetches, loc, plan, g, timeVars,
                  nreq, log >>

\* ------------------------------------------------------------------------
\* QARepeater.repeat_qa(num_sessions)
\* ------------------------------------------------------------------------
CachedTests == cache.test_list.v.tests

\* the call ends by raising: the exception reaches the caller
Fail(exc) ==
  /\ outcome' = Raised(exc)
  /\ pc' = "ready"
  /\ g' = GIdle

\* what a get_api_objects call returned, as the caller uses it
Returned == IF g.ret.kind = "single" THEN g.ret.payload.obj ELSE g.ret.list

RepeatQa ==
  /\ pc = "ready"
  /\ plan # <<>>
  /\ plan' = Tail(plan)
  /\ loc' = [NoLocals EXCEPT !.n = Head(plan), !.existing = Len(sessions)]
  /\ outcome' = [kind |-> "running"]
  /\ log' = <<>>
  /\ pc' = "tests"
  /\ UNCHANGED << serverVars, api_url, root, cache, fetches, g, timeVars, nreq >>

\* self.assignment, first use
FetchAssignment ==
  /\ pc = "tests"
  /\ NeedsFetch(cache.assignment)
  /\ g' = StartGet(Url("unittestcollections", Num(AssignmentId), -1, 0), TRUE)
  /\ fetches' = [fetches EXCEPT !.assignment = @ + 1]
  /\ pc' = "assignment"
  /\ UNCHANGED << serverVars, api_url, root, cache, loc, outcome, plan, timeVars,
                  nreq, log >>

AssignmentReturn ==
  /\ pc = "assignment"
  /\ GDone
  /\ IF g.pc = "raised"
     THEN Fail(Exc("RequestException", "GET")) /\ cache' = cache
     ELSE /\ cache' = [cache EXCEPT !.assignment = Cached(Returned)]
          /\ pc' = "tests"
          /\ g' = GIdle
          /\ outcome' = outcome
  /\ UNCHANGED << serverVars, api_url, root, fetches, loc, plan, timeVars, nreq, log >>

\* self.test_list, first use: the id is the last segment of tests_object
FetchTestList ==
  /\ pc = "tests"
  /\ cache.assignment.set
  /\ NeedsFetch(cache.test_list)
  /\ IF cache.assignment.v.kind # "assignment"
     THEN Fail(Exc("KeyError", "tests_object")) /\ fetches' = fetches
     ELSE /\ g' = StartGet(Url("testlists-details",
                               Str(ObjectIdFromUrl(cache.assignment.v.tests_object)),
                               -1, 0), TRUE)
          /\ fetches' = [fetches EXCEPT !.test_list = @ + 1]
          /\ pc' = "test_list"
          /\ outcome' = outcome
  /\ UNCHANGED << serverVars, api_url, root, cache, loc, plan, timeVars, nreq, log >>

TestListReturn ==
  /\ pc = "test_list"
  /\ GDone
  /\ IF g.pc = "raised"
     THEN Fail(Exc("RequestException", "GET")) /\ cache' = cache
     ELSE /\ cache' = [cache EXCEPT !.test_list = Cached(Returned)]
          /\ pc' = "tests"
          /\ g' = GIdle
          /\ outcome' = outcome
  /\ UNCHANGED << serverVars, api_url, root, fetches, loc, plan, timeVars, nreq, log >>

\* self.tests is there: self.previous_sessions(num_sessions)
PreviousSessions ==
  /\ pc = "tests"
  /\ cache.test_list.set
  /\ IF cache.test_list.v.kind # "testlist"
     THEN Fail(Exc("KeyError", "tests"))
     ELSE LET call == PreviousSessionsCall(loc.n) IN
          /\ g' = StartGet(call.url, call.all_pages)
          /\ pc' = "previous_sessions"
          /\ outcome' = outcome
  /\ UNCHANGED << serverVars, api_url, root, cache, fetches, loc, plan, timeVars,
                  nreq, log >>

PreviousSessionsReturn ==
  /\ pc = "previous_sessions"
  /\ GDone
  /\ IF g.pc = "raised"
     THEN Fail(Exc("RequestException", "GET")) /\ loc' = loc
     ELSE IF g.ret.kind # "list"
     THEN Fail(Exc("TypeError", "previous_session")) /\ loc' = loc
     ELSE /\ loc' = [loc EXCEPT !.prevs = g.ret.list, !.i = 1]
          /\ pc' = "loop"
          /\ g' = GIdle
          /\ outcome' = outcome
  /\ UNCHANGED << serverVars, api_url, root, cache, fetches, plan, timeVars, nreq, log >>

\* the loop over the previous sessions is over: return results
Return ==
  /\ pc = "loop"
  /\ loc.i > Len(loc.prevs)
  /\ outcome' = [kind |-> "returned", tables |-> loc.results]
  /\ pc' = "ready"
  /\ UNCHANGED << serverVars, api_url, root, cache, fetches, loc, plan, g, timeVars,
                  nreq, log >>

\* self.unit_test_infos, first use (in the first results_from_session)
FetchUnitTestInfos ==
  /\ pc = "loop"
  /\ loc.i <= Len(loc.prevs)
  /\ NeedsFetch(cache.unit_test_infos)
  /\ g' = StartGet(Url("unittestinfos", Str(ObjectIdFromUrl(cache.assignment.v.unit)),
                       -1, 0), TRUE)
  /\ fetches' = [fetches EXCEPT !.unit_test_infos = @ + 1]
  /\ pc' = "unit_test_infos"
  /\ UNCHANGED << serverVars, api_url, root, cache, loc, outcome, plan, timeVars,
                  nreq, log >>

UnitTestInfosReturn ==
  /\ pc = "unit_test_infos"
  /\ GDone
  /\ IF g.pc = "raised"
     THEN Fail(Exc("RequestException", "GET")) /\ cache' = cache
     ELSE /\ cache' = [cache EXCEPT
                         !.unit_test_infos = Cached(TestListUtis(Returned, CachedTests))]
          /\ pc' = "loop"
          /\ g' = GIdle
          /\ outcome' = outcome
  /\ UNCHANGED << serverVars, api_url, root, fetches, loc, plan, timeVars, nreq, log >>

\* previous_results = self.results_from_session(previous_session), and the
\* payload starts with every test that is not calculated marked skipped
DecodePrevious ==
  /\ pc = "loop"
  /\ loc.i <= Len(loc.prevs)
  /\ cache.unit_test_infos.set
  /\ LET r == ResultsFromSession(loc.prevs[loc.i], CachedTests, cache.unit_test_infos.v) IN
     IF ~ r.ok
     THEN Fail(r.exc) /\ loc' = loc
     ELSE /\ loc' = [loc EXCEPT !.previous_results = r.results,
                                !.tvfp = InitialPayload(CachedTests),
                                !.j = 1]
          /\ pc' = "build"
          /\ g' = g
          /\ outcome' = outcome
  /\ UNCHANGED << serverVars, api_url, root, cache, fetches, plan, timeVars, nreq, log >>

\* one pass of `for slug, value in previous_results.items()`; an upload
\* with an attachment id starts fetch_attachment
BuildEntry ==
  /\ pc = "build"
  /\ loc.j <= Len(loc.previous_results)
  /\ LET slug == loc.previous_results[loc.j].key
         value == loc.previous_results[loc.j].value
         test == SlugToTest(CachedTests, slug)
     IN IF NotSubmitted(test, value)
        THEN /\ loc' = [loc EXCEPT !.j = @ + 1]
             /\ pc' = pc /\ g' = g
        ELSE IF test.type = "upload"
        THEN IF Truthy(value)
             THEN /\ g' = StartGet(Url("attachments", value, -1, 0), TRUE)
                  /\ pc' = "attachment"
                  /\ loc' = loc
             ELSE /\ loc' = [loc EXCEPT !.j = @ + 1]
                  /\ pc' = pc /\ g' = g
        ELSE /\ loc' = [loc EXCEPT !.tvfp = [@ EXCEPT ![test.slug] = ValueEntry(value)],
                                   !.j = @ + 1]
             /\ pc' = pc /\ g' = g
  /\ UNCHANGED << serverVars, api_url, root, cache, fetches, outcome, plan, timeVars,
                  nreq, log >>

\* fetch_attachment: the attachment's metadata has arrived
AttachmentReturn ==
  /\ pc = "attachment"
  /\ GDone
  /\ IF g.pc = "raised"
     THEN Fail(Exc("RequestException", "GET")) /\ loc' = loc
     ELSE IF Returned.kind # "attachment"
     THEN Fail(Exc("KeyError", "download")) /\ loc' = loc
     ELSE /\ loc' = [loc EXCEPT !.attachment = Returned]
          /\ pc' = "download"
          /\ g' = GIdle
          /\ outcome' = outcome
  /\ UNCHANGED << serverVars, api_url, root, cache, fetches, plan, timeVars, nreq, log >>

\* fetch_attachment: self.session.get(download_link, stream=True), and the
\* entry built from the downloaded bytes
Download ==
  /\ pc = "download"
  /\ log' = Append(log, Request("GET", Url("download", loc.attachment.download, -1, 0), FALSE))
  /\ \E failed \in BOOLEAN :
       IF failed
       THEN Fail(Exc("RequestException", "GET")) /\ loc' = loc
       ELSE LET slug == loc.previous_results[loc.j].key
                v == UploadValue(ServerDownload(loc.attachment.download))
            IN IF ~ v.ok
               THEN Fail(v.exc) /\ loc' = loc
               ELSE /\ loc' = [loc EXCEPT
                                 !.tvfp = [@ EXCEPT ![slug] =
                                             UploadEntry(v.value, loc.attachment.label)],
                                 !.j = @ + 1]
                    /\ pc' = "build"
                    /\ g' = g
                    /\ outcome' = outcome
  /\ UNCHANGED << serverVars, api_url, root, cache, fetches, plan, timeVars, nreq >>

\* the statuses the service answers a session POST with
PostStatuses == {CREATED, 400, 429}

\* a mutant of perform_session: a status that is not 201 is accepted too
PostAccepted(status) == TRUE

\* perform_session: response.status_code == requests.status_codes.codes.CREATED
PostCreated(status) == status = CREATED

\* perform_session: "Failed to repeat session: <Response [status]>", with
\* ": <body>" when response.json() parses
SubmissionError(status, body_is_json) ==
  [type |-> "ValueError", msg |-> "Failed to repeat session", status |-> status,
   body |-> IF body_is_json THEN "json" ELSE "none"]

\* a mutant of perform_session: the payload is written over the most recent
\* session instead of being posted to the collection
PutSession(ss, created) ==
  IF ss = <<>> THEN << created >> ELSE [ss EXCEPT ![Len(ss)] = created]

\* perform_session: self.session.post(f"{self.root}qa/testlistinstances/"),
\* accepted: the collection gains the new session
PostSession(ss, created) == Append(ss, created)

\* perform_session: the POST of the payload and the service's answer
PerformSession ==
  /\ pc = "build"
  /\ loc.j > Len(loc.previous_results)
  /\ \E status \in PostStatuses, body_is_json \in BOOLEAN, c \in 1..2, omit \in BOOLEAN :
       LET k == Len(sessions) + 1
           new_attachment_id == IdStr(Len(attachments) + 1)
           instances == NewInstances(tests, loc.tvfp, c, new_attachment_id)
           created == Session(k, IF omit THEN Performed(instances) ELSE instances)
       IN /\ log' = Append(log, [Request("POST", Url("testlistinstances", NoneV, -1, 0), FALSE)
                                    EXCEPT !.status = status, !.json = body_is_json])
          /\ IF status = CREATED
             THEN /\ sessions' = PostSession(sessions, created)
                  /\ attachments' = attachments \o NewAttachments(loc.tvfp, new_attachment_id)
             ELSE /\ c = 1 /\ ~ omit
                  /\ UNCHANGED << sessions, attachments >>
          /\ IF ~ PostCreated(status)
             THEN Fail(SubmissionError(status, body_is_json)) /\ loc' = loc
             ELSE IF ~ body_is_json
             THEN Fail(Exc("JSONDecodeError", "response")) /\ loc' = loc
             ELSE IF status # CREATED
             THEN Fail(Exc("KeyError", "url")) /\ loc' = loc
             ELSE /\ loc' = [loc EXCEPT !.new_url = created.url]
                  /\ pc' = "refetch"
                  /\ g' = g
                  /\ outcome' = outcome
  /\ UNCHANGED << tests, rootPayload, api_url, root, cache, fetches, plan, timeVars, nreq >>

\* perform_session: self.session.get(response.json()['url']).json(); then
\* new_results and the table of this previous session
Refetch ==
  /\ pc = "refetch"
  /\ log' = Append(log, Request("GET", Url("session", loc.new_url, -1, 0), FALSE))
  /\ \E failed \in BOOLEAN :
       IF failed
       THEN Fail(Exc("RequestException", "GET")) /\ loc' = loc
       ELSE LET new_session == ServerSession(loc.new_url)
                r == ResultsFromSession(new_session, CachedTests, cache.unit_test_infos.v)
            IN IF ~ r.ok
               THEN Fail(r.exc) /\ loc' = loc
               ELSE /\ loc' = [loc EXCEPT
                                 !.results = Append(@, generate_results_table(
                                     loc.prevs[loc.i], loc.previous_results,
                                     new_session, r.results, CachedTests)),
                                 !.i = @ + 1]
                    /\ pc' = "loop"
                    /\ g' = g
                    /\ outcome' = outcome
  /\ UNCHANGED << serverVars, api_url, root, cache, fetches, plan, timeVars, nreq >>

\* ------------------------------------------------------------------------
\* The client's life: QARepeater(...) and then the planned repeat_qa calls,
\* against every service and every input of the families below
\* ------------------------------------------------------------------------
RECURSIVE SeqsUpTo(_, _)
SeqsUpTo(S, n) ==
  IF n = 0 THEN {<<>>}
  ELSE LET shorter == SeqsUpTo(S, n - 1)
       IN shorter \cup {Append(q, x) : q \in {r \in shorter : Len(r) = n - 1}, x \in S}

\* the elements of seq whose flag is set, in order
RECURSIVE Pick(_, _)
Pick(seq, flags) ==
  IF seq = <<>> THEN <<>>
  ELSE (IF Head(flags) THEN << Head(seq) >> ELSE <<>>) \o Pick(Tail(seq), Tail(flags))

UrlTokens == {"/", "api", "h"}

\* the types of the tests a session submits a value for, "other" being a
\* type the client does not know
SubmittedTypes ==
  {"simple", "boolean", "string", "constant", "wraparound", "date", "datetime",
   "multchoice", "ulookup", "other"}

\* the instances a session can hold for a test: skipped, or performed with
\* a value of the test's type (or, for a statistic, with broken JSON)
InstancesOf(test) ==
  {SkippedInstance(UtiOf(test))}
    \cup {StoredInstance(test, v) : v \in ValuesOfType(test.type, test.statistic)}
    \cup (IF test.type = "simple" /\ test.statistic
          THEN {[BlankInstance(UtiOf(test)) EXCEPT !.json_value = Str("{")]}
          ELSE {})

Optional(S) == {<<>>} \cup {<< x >> : x \in S}

Scenario(ts, ss, url, rp, pl) ==
  /\ tests = ts
  /\ sessions = ss
  /\ attachments = InitialAttachments
  /\ rootPayload = rp
  /\ api_url = url
  /\ plan = pl
  /\ pc = "new"
  /\ ClientInit

\* every api_url and every answer of the root
InitUrls ==
  \E url \in SeqsUpTo(UrlTokens, MaxUrlLen), rp \in RootPayloads :
    Scenario(BaselineTests, << BaselineSession(1) >>, url, rp, << 1 >>)

\* every type of a submitted and of a calculated test
InitTypes ==
  \E type \in SubmittedTypes, statistic \in BOOLEAN, ctype \in CALCULATED_TEST_TYPES :
    \E inst \in InstancesOf(TempTest(type, statistic)) :
      Scenario(<< TempTest(type, statistic), KtpTest(ctype) >>,
               << Session(1, << inst, StoredInstance(KtpTest(ctype), CalcResult(ctype, 1)) >>) >>,
               GoodUrl, GoodRoot, << 1 >>)

\* every test list made of the three tests, against a session performed on
\* any of the four tests: tests removed since, tests added since, uploads
InitLists ==
  \E flags \in [1..3 -> BOOLEAN] :
    \E a \in Optional(InstancesOf(TempTest("simple", FALSE))),
       b \in Optional({StoredInstance(KtpTest("composite"), Num(5))}),
       c \in Optional(InstancesOf(ImageTest)),
       d \in Optional({StoredInstance(OldTest, Num(5))}) :
      Scenario(Pick(<< TempTest("simple", FALSE), KtpTest("composite"), ImageTest >>,
                    << flags[1], flags[2], flags[3] >>),
               << Session(1, a \o b \o c \o d) >>, GoodUrl, GoodRoot, << 1 >>)

\* every requested count against every number of historical sessions
InitCounts ==
  \E k \in 0..MaxSessions, n \in 0..MaxN :
    Scenario(BaselineTests, [i \in 1..k |-> BaselineSession(i)], GoodUrl, GoodRoot, << n >>)

\* several repeat_qa calls on one client
InitCalls ==
  \E pl \in SeqsUpTo({0, 1}, MaxCalls) \ {<<>>} :
    Scenario(BaselineTests, << BaselineSession(1) >>, GoodUrl, GoodRoot, pl)

Init == InitUrls \/ InitTypes \/ InitLists \/ InitCounts \/ InitCalls

Next ==
  \/ Construct \/ ProbeReturn
  \/ RepeatQa
  \/ FetchAssignment \/ AssignmentReturn
  \/ FetchTestList \/ TestListReturn
  \/ PreviousSessions \/ PreviousSessionsReturn
  \/ FetchUnitTestInfos \/ UnitTestInfosReturn
  \/ DecodePrevious \/ BuildEntry
  \/ AttachmentReturn \/ Download
  \/ PerformSession \/ Refetch
  \/ Return
  \/ GetWait \/ GetSend \/ GetRecv

Spec == Init /\ [][Next]_vars

\* ------------------------------------------------------------------------
\* Properties
\* ------------------------------------------------------------------------
IsCalculated(test) == test.type \in {"composite", "scomposite", "rlookup"}

\* the last request sent is the session POST: loc.tvfp is the payload sent
Posted == log # <<>> /\ log[Len(log)].method = "POST"

\* the test a row of a table is about
TestNamed(name) == tests[CHOOSE k \in 1..Len(tests) : Str(tests[k].name) = name]

\* the historical session holds an instance of a test that is no longer in
\* the test list
HasRemovedInstance(session) ==
  \E k \in 1..Len(session.test_instances) :
    session.test_instances[k].unit_test_info \notin {UtiOf(tests[m]) : m \in 1..Len(tests)}

\* C2: no payload holds an entry of a calculated test, and every calculated
\* test decoded from a historical session has a row, with the decoded value,
\* in that session's table.
C2_CalculatedNeverSubmitted ==
  /\ \A slug \in DOMAIN loc.tvfp : ~ IsCalculated(SlugToTest(tests, slug))
  /\ \A t \in 1..Len(loc.results) :
       LET decoded == ResultsFromSession(loc.prevs[t], tests,
                                         TestListUtis(UnitUtis, tests)).results
       IN \A k \in 1..Len(decoded) :
            LET test == SlugToTest(tests, decoded[k].key) IN
            IsCalculated(test) =>
              \E r \in 6..Len(loc.results[t]) :
                /\ loc.results[t][r][1] = Str(test.name)
                /\ loc.results[t][r][2] = decoded[k].value

\* a replay was posted and its table returned, with a calculated test in the
\* list and in the table
C2_Witness ==
  /\ outcome.kind = "returned"
  /\ \E t \in 1..Len(outcome.tables) : \E r \in 6..Len(outcome.tables[t]) :
       IsCalculated(TestNamed(outcome.tables[t][r][1]))
  /\ DOMAIN loc.tvfp # {}

\* C3: a repeat_qa(n) that returns, returns n tables when the assignment had
\* at least n sessions, as many as it had when it had fewer, none for n = 0.
C3_TableCount ==
  outcome.kind = "returned" =>
    Len(outcome.tables) = (IF loc.existing >= loc.n THEN loc.n ELSE loc.existing)

C3_Witness ==
  /\ outcome.kind = "returned"
  /\ loc.n = 2
  /\ loc.existing >= 2
  /\ Len(outcome.tables) = 2

\* C4: a historical session with an instance of a removed test is decoded
\* and replayed without error.
C4_RemovedTestsDropped ==
  (loc.i \in 1..Len(loc.prevs) /\ HasRemovedInstance(loc.prevs[loc.i]))
    => ~ (outcome.kind = "raised" /\ outcome.exc.type = "KeyError")

\* C5: the payload sent has one entry per test of the list that is not
\* calculated and no other, and the entry of a test without a value in the
\* historical session is {skipped: true}.
C5_PayloadCoversAssignedTests ==
  Posted =>
    /\ DOMAIN loc.tvfp =
         {tests[k].slug : k \in {m \in 1..Len(tests) : ~ IsCalculated(tests[m])}}
    /\ \A slug \in DOMAIN loc.tvfp :
         (\/ ~ HasKey(loc.previous_results, slug)
          \/ DictGet(loc.previous_results, slug) = NoneV)
           => loc.tvfp[slug] = [skipped |-> TRUE]

\* a payload was sent in which a test added since the session is skipped and
\* another test has its historical value
C5_Witness ==
  /\ Posted
  /\ \E slug \in DOMAIN loc.tvfp :
       ~ HasKey(loc.previous_results, slug) /\ loc.tvfp[slug] = [skipped |-> TRUE]
  /\ \E slug \in DOMAIN loc.tvfp : "value" \in DOMAIN loc.tvfp[slug]

\* C6: a session POST answered with a status other than 201 is the last
\* request of the call, and the call has ended by raising a ValueError that
\* carries the status, and the body when it is JSON.
C6_FailedPostEndsTheCall ==
  \A k \in 1..Len(log) :
    (log[k].method = "POST" /\ log[k].status # 201) =>
      /\ k = Len(log)
      /\ pc = "ready"
      /\ outcome.kind = "raised"
      /\ outcome.exc.type = "ValueError"
      /\ outcome.exc.status = log[k].status
      /\ (log[k].json <=> outcome.exc.body = "json")
      /\ Len(sessions) = loc.existing + Len(loc.results)

\* the POST of the first of two historical sessions was refused
C6_Witness ==
  /\ Posted
  /\ log[Len(log)].status = 400
  /\ Len(loc.prevs) = 2
  /\ loc.i = 1
  /\ outcome.kind = "raised"

\* C7: when the payload is sent, the entry of an upload test whose
\* historical value is an attachment id holds that attachment's content
\* (as downloaded, or as the base64 text of it), its label and 'base64',
\* the attachment having been fetched (metadata, then download); the entry
\* of an upload test without a value is skipped and no attachment is
\* requested.
C7_UploadSubmitsContent ==
  Posted =>
    \A k \in 1..Len(loc.previous_results) :
      LET slug == loc.previous_results[k].key
          v == loc.previous_results[k].value
      IN SlugToTest(tests, slug).type = "upload" =>
           IF v = NoneV
           THEN /\ loc.tvfp[slug] = [skipped |-> TRUE]
                /\ \A a \in 1..Len(log) : log[a].url.ep \notin {"attachments", "download"}
           ELSE v.t = "idstr" =>
                  LET att == attachments[CHOOSE m \in 1..Len(attachments) :
                                           attachments[m].id = v]
                      e == loc.tvfp[slug]
                  IN /\ DOMAIN e = {"value", "filename", "encoding"}
                     /\ e.filename = att.label
                     /\ e.encoding = "base64"
                     /\ \/ e.value = Text(att.content)
                        \/ /\ B64Decode(e.value.b).ok
                           /\ B64Decode(e.value.b).b = att.content
                     /\ \E a, b \in 1..Len(log) :
                          /\ a < b
                          /\ log[a].url.ep = "attachments"
                          /\ log[b].url.ep = "download"

\* C8 as stated: in every table, the row of a test that is not calculated
\* and has a historical value says 'True'.
C8_RoundTripOfEveryType ==
  \A t \in 1..Len(loc.results) : \A r \in 6..Len(loc.results[t]) :
    LET row == loc.results[t][r] IN
    (~ IsCalculated(TestNamed(row[1])) /\ row[2] # NoneV) => row[4] = Str("True")

\* C8, amended: in every table, the row of a test that is neither calculated
\* nor an upload and has a historical value holds that value as the new
\* value and says 'True'.
C8_RoundTrip ==
  \A t \in 1..Len(loc.results) : \A r \in 6..Len(loc.results[t]) :
    LET row == loc.results[t][r] IN
    (/\ ~ IsCalculated(TestNamed(row[1]))
     /\ TestNamed(row[1]).type # "upload"
     /\ row[2] # NoneV)
      => row[3] = row[2] /\ row[4] = Str("True")

\* a table with the row of a submitted test whose historical value is 0
C8_Witness ==
  \E t \in 1..Len(loc.results) : \E r \in 6..Len(loc.results[t]) :
    LET row == loc.results[t][r] IN
    /\ ~ IsCalculated(TestNamed(row[1]))
    /\ row[2] = Num(0)
    /\ row[4] = Str("True")

\* the constructor has returned or raised
ConstructionOver == pc = "failed" \/ (pc = "ready" /\ outcome.kind = "constructed")

\* api_url, stripped of its slashes and with one slash added, ends with /api/
ShapeRight ==
  LET r == Append(Strip(api_url), "/") IN
  Len(r) >= 3 /\ r[Len(r)] = "/" /\ r[Len(r) - 1] = "api" /\ r[Len(r) - 2] = "/"

\* C9 as stated: construction succeeds iff the shape is right and the probe
\* GET is answered with a mapping that has the key 'qa'; a wrong shape fails
\* before any request.
C9_ConstructionIffQaMapping ==
  ConstructionOver =>
    /\ pc = "ready" <=>
         (ShapeRight /\ g.pc = "ret" /\ rootPayload.isdict /\ "qa" \in rootPayload.keys)
    /\ ~ ShapeRight => log = <<>>

\* C10 as stated: a wrong shape and a probe answer that is no service root
\* fail with one kind of error, a probe that cannot be completed with
\* another.
C10_ErrorKindsDistinguished ==
  pc = "failed" =>
    /\ (~ ShapeRight \/ g.pc = "ret") => outcome.exc = Exc("ValueError", "Invalid API URL")
    /\ g.pc = "raised" => outcome.exc # Exc("ValueError", "Invalid API URL")

\* C10, amended: every construction failure is a ValueError; the one of a
\* wrong shape says "Invalid API URL", and the one of a probe says "Unable
\* to contact RadMachine" whether the probe could not be completed or its
\* answer is no service root.
C10_ErrorKinds ==
  pc = "failed" =>
    /\ outcome.kind = "raised"
    /\ outcome.exc.type = "ValueError"
    /\ outcome.exc.msg = (IF ShapeRight THEN "Unable to contact RadMachine"
                          ELSE "Invalid API URL")

\* construction failed on a probe answer that is a mapping without 'qa'
C10_Witness ==
  /\ pc = "failed"
  /\ g.pc = "ret"
  /\ rootPayload.isdict
  /\ "qa" \notin rootPayload.keys
  /\ outcome.exc.msg = "Unable to contact RadMachine"

\* C11: every request the client has sent went through the rate limiter:
\* it waited for the deadline and advanced it before it was sent.
C11_EveryRequestThrottled ==
  \A k \in 1..Len(log) : log[k].throttled

\* a repeat_qa call is running or has ended
InRepeat == pc \notin {"new", "probe", "failed", "throttle"} /\ outcome.kind # "constructed"

\* C12: no step changes or removes a session of the service, a step adds at
\* most one; a repeat_qa call has added at most one session per historical
\* session it has come to, and when it raises, the tables' sessions are
\* still there and the caller gets no table.
C12_SessionsOnlyAdded ==
  /\ [][\/ sessions' = sessions
        \/ /\ Len(sessions') = Len(sessions) + 1
           /\ SubSeq(sessions', 1, Len(sessions)) = sessions]_vars
  /\ [](InRepeat =>
          /\ Len(sessions) >= loc.existing + Len(loc.results)
          /\ Len(sessions) <= loc.existing +
               (IF loc.i < Len(loc.prevs) THEN loc.i ELSE Len(loc.prevs))
          /\ \A t \in 1..Len(loc.results) :
               \E k \in (loc.existing + 1)..Len(sessions) :
                 sessions[k].url = loc.results[t][3][2]
          /\ outcome.kind = "raised" => "tables" \notin DOMAIN outcome)

\* the replay of the second historical session failed after the first one
\* had created its session
C12_Witness ==
  /\ outcome.kind = "raised"
  /\ loc.i = 2
  /\ Len(loc.results) = 1
  /\ Len(sessions) > loc.existing

\* what decoding a session of the service yields with the tests of the list
DecodedResults(session) ==
  ResultsFromSession(session, tests, TestListUtis(UnitUtis, tests)).results

\* C13: the t-th table is that of the t-th historical session fetched: four
\* header rows with the links and dates of the previous and the new
\* session, the column titles, then one row per slug decoded from the
\* historical session, in order: name, previous value, new value ('' when
\* the new session has none), 'True' or 'False' of their equality.
C13_TableShape ==
  /\ \A t \in 1..Len(loc.results) :
       LET table == loc.results[t]
           previous == loc.prevs[t]
           old == DecodedResults(previous)
           new_session == sessions[CHOOSE k \in 1..Len(sessions) :
                                     sessions[k].url = table[3][2]]
           new == DecodedResults(new_session)
       IN /\ Len(table) = 5 + Len(old)
          /\ table[1] = << Str("Previous Session Link"), previous.url >>
          /\ table[2] = << Str("Previous Session Date"), Num(previous.work_completed) >>
          /\ table[3][1] = Str("New Session Link")
          /\ table[4] = << Str("New Session Date"), Num(new_session.work_completed) >>
          /\ table[5] = << Str("Test"), Str("Previous Result"), Str("New Result"),
                           Str("Equal") >>
          /\ new_session.url # previous.url
          /\ \A k \in 1..Len(old) :
               LET row == table[5 + k]
                   name == tests[CHOOSE m \in 1..Len(tests) : tests[m].slug = old[k].key].name
                   absent == \A m \in 1..Len(new) : new[m].key # old[k].key
               IN /\ Len(row) = 4
                  /\ row[1] = Str(name)
                  /\ row[2] = old[k].value
                  /\ row[3] = (IF absent THEN Str("")
                               ELSE new[CHOOSE m \in 1..Len(new) : new[m].key = old[k].key].value)
                  /\ row[4] = Str(IF row[2] = row[3] THEN "True" ELSE "False")
  /\ outcome.kind = "returned" =>
       outcome.tables = loc.results /\ Len(outcome.tables) = Len(loc.prevs)

\* a call returned a table with two rows, one of them with the new value ''
\* because the new session has no result for the slug
C13_Witness ==
  /\ outcome.kind = "returned"
  /\ \E t \in 1..Len(outcome.tables) :
       /\ Len(outcome.tables[t]) >= 7
       /\ \E r \in 6..Len(outcome.tables[t]) :
            /\ outcome.tables[t][r][2] = NoneV
            /\ outcome.tables[t][r][3] = Str("")
            /\ outcome.tables[t][r][4] = Str("False")

\* the endpoints of the references the client caches
CachedEndpoint ==
  [assignment |-> "unittestcollections", test_list |-> "testlists-details",
   unit_test_infos |-> "unittestinfos"]

RECURSIVE Chain(_)
Chain(u) ==
  LET payload == ServerGet(u) IN
  << u >> \o (IF payload.next = NoUrl THEN <<>> ELSE Chain(payload.next))

\* the results of the pages of a chain, one after the other
RECURSIVE ChainResults(_)
ChainResults(urls) ==
  IF urls = <<>> THEN <<>>
  ELSE ServerGet(Head(urls)).results \o ChainResults(Tail(urls))

\* C15: a get_api_objects call that has returned, returned the answer as it
\* is after one request when the answer has no 'results'; else with
\* all_pages it requested the pages of the chain of next links, each once
\* and in order, and returned their results one after the other; else it
\* sent one request and returned the first page's results.  The clock is
\* advanced by the page delay in the steps that go on to the next page and
\* in no other.
C15_Pagination ==
  /\ [](g.pc = "ret" =>
          LET u == log[1].url
              first == ServerGet(u)
          IN IF ~ first.isdict \/ "results" \notin first.keys
             THEN /\ g.ret = [kind |-> "single", payload |-> first]
                  /\ Len(log) = 1
             ELSE IF g.all_pages
             THEN /\ [k \in 1..Len(log) |-> log[k].url] = Chain(u)
                  /\ g.ret = [kind |-> "list", list |-> ChainResults(Chain(u))]
             ELSE /\ Len(log) = 1
                  /\ g.ret = [kind |-> "list", list |-> first.results])
  /\ [][/\ (g.pc = "recv" /\ g'.pc = "wait") => clock' = clock + PAGE_SLEEP_S
        /\ clock' >= clock + PAGE_SLEEP_S => (g.pc = "recv" /\ g'.pc = "wait")]_vars

\* a call with all_pages followed the next links over three pages
C15_Witness ==
  /\ g.pc = "ret"
  /\ g.all_pages
  /\ Len(log) >= 3
  /\ g.ret.kind = "list"
  /\ Len(g.ret.list) = Len(UnitUtis)

\* the dispatch table of the decoding, by test type
DispatchTable(test, ti) ==
  IF ti.skipped THEN NoneV
  ELSE CASE test.type = "simple" /\ test.statistic -> JsonLoads(ti.json_value)
         [] test.type = "simple" /\ ~ test.statistic -> ti.value
         [] test.type \in {"boolean", "composite", "constant", "wraparound"} -> ti.value
         [] test.type \in {"string", "scomposite", "multchoice", "upload"} -> ti.string_value
         [] test.type = "date" -> ti.date_value
         [] test.type = "datetime" -> ti.datetime_value
         [] test.type \in {"ulookup", "rlookup"} ->
              Str(ti.unit_lookup_value[Len(ti.unit_lookup_value) - 1])
         [] OTHER -> ti.json_value

\* previous_results holds the decoded historical session
Decoded == pc \in {"build", "attachment", "download", "refetch"}

\* C16: every value decoded from a test instance of the historical session
\* is the one the dispatch table gives for the type of its test, and no
\* unknown-type error is raised.
C16_DispatchTable ==
  /\ Decoded =>
       \A k \in 1..Len(loc.prevs[loc.i].test_instances) :
         LET ti == loc.prevs[loc.i].test_instances[k]
             test == tests[CHOOSE m \in 1..Len(tests) : UtiOf(tests[m]) = ti.unit_test_info]
         IN /\ HasKey(loc.previous_results, test.slug)
            /\ DictGet(loc.previous_results, test.slug) = DispatchTable(test, ti)
  /\ outcome.kind = "raised" => outcome.exc.type # "TypeError"

\* the instance of a test of an unrecognized type was decoded from its JSON
\* value field, next to one of a calculated test
C16_Witness ==
  /\ Decoded
  /\ Len(tests) = 2
  /\ tests[1].type = "other"
  /\ DictGet(loc.previous_results, "temperature") = Str("x")
  /\ HasKey(loc.previous_results, "ktp")

\* ------------------------------------------------------------------------
\* Termination: the client's life and, next to it, a caller of
\* get_api_objects on listings whose chain of next links ends or cycles.
\* The program is sequential and takes its next step whenever it has one;
\* every request is answered or raises.
\* ------------------------------------------------------------------------
PagingUrls == ThrottleUrls \cup {Url("cycle", NoneV, -1, 0)}

PagingCall ==
  /\ pc = "paging"
  /\ g.pc \in {"idle", "ret", "raised"}
  /\ nreq < MaxRequests
  /\ \E u \in PagingUrls, all_pages \in BOOLEAN : g' = StartGet(u, all_pages)
  /\ nreq' = nreq + 1
  /\ log' = <<>>
  /\ UNCHANGED << serverVars, api_url, root, pc, cache, fetches, loc, outcome,
                  plan, timeVars >>

InitPaging ==
  /\ tests = BaselineTests
  /\ sessions = << BaselineSession(1), BaselineSession(2) >>
  /\ attachments = InitialAttachments
  /\ rootPayload = GoodRoot
  /\ api_url = GoodUrl
  /\ pc = "paging"
  /\ plan = <<>>
  /\ ClientInit

InitLive == Init \/ InitPaging

NextLive == Next \/ PagingCall

SpecLive == InitLive /\ [][NextLive]_vars /\ WF_vars(NextLive)

\* the chain of next links from u comes back to u within two pages
Cycles(u) ==
  LET n1 == ServerGet(u).next IN
  n1 # NoUrl /\ (n1 = u \/ ServerGet(n1).next = u)

\* a repeat_qa call is running
Running == pc \notin {"new", "probe", "failed", "ready", "paging"}

\* C17: a get_api_objects call on a chain of next links that ends, or with
\* all_pages false, eventually returns or raises; a repeat_qa call
\* eventually returns its tables or raises; a get_api_objects call with
\* all_pages on a chain that cycles never returns.
C17_Termination ==
  /\ (g.pc = "wait" /\ (~ g.all_pages \/ ~ Cycles(g.next_page))) ~> GDone
  /\ Running ~> (pc = "ready" /\ outcome.kind \in {"returned", "raised"})
  /\ []((g.pc # "idle" /\ g.all_pages /\ log # <<>> /\ Cycles(log[1].url))
          => g.pc # "ret")

\* a call with all_pages on the cyclic listing has come round to its first
\* page again and goes on
C17_Witness ==
  /\ pc = "paging"
  /\ g.all_pages
  /\ g.pc = "wait"
  /\ Len(log) >= 4
  /\ Cycles(log[1].url)
  /\ log[3].url = log[1].url

====
